---- MODULE Spec2Model ----
(***************************************************************************)
(* Model of the Sierra console agent (src/agent.py, src/main.py).          *)
(*                                                                         *)
(* A Python string is a finite sequence of atoms.  An atom is either one   *)
(* of the separator characters "," " " "\n", a single character, or a run  *)
(* of text that contains no comma and neither starts nor ends with white   *)
(* space.  Concatenation is \o, so split/strip/lower/upper/join are        *)
(* computed on the sequence as the code computes them on the characters.   *)
(* Non-ASCII glyphs of the fixed texts are left out of the literals.       *)
(***************************************************************************)
EXTENDS Integers, Sequences, FiniteSets, TLC

VARIABLES orders, products, tag_index, history,
          pc, user_input, console, turns, handle_calls, gateway_calls, last

vars == <<orders, products, tag_index, history,
          pc, user_input, console, turns, handle_calls, gateway_calls, last>>

(***************************************************************************)
(* Bounds of the model.                                                    *)
(***************************************************************************)
MaxTurns == 2
MaxProducts == 2
MaxOrders == 2
MaxRespLen == 3
MaxTagRespLen == 3

(***************************************************************************)
(* str methods                                                             *)
(***************************************************************************)
Whitespace == {" ", "\n", "\t"}

\* str.lower() on one atom; atoms without cased letters map to themselves.
LowerAtom(a) ==
    CASE a = "Exit" -> "exit"
      [] a = "EXIT" -> "exit"
      [] a = "QUIT" -> "quit"
      [] a = "Hike" -> "hike"
      [] a = "HIKE" -> "hike"
      [] a = "Tent" -> "tent"
      [] a = "Order" -> "order"
      [] a = "A@X.COM" -> "a@x.com"
      [] a = "Oops! Looks like I'm having trouble reaching the trailhead. Try again in a moment?"
           -> "oops! looks like i'm having trouble reaching the trailhead. try again in a moment?"
      [] OTHER -> a

Lower(s) == [i \in DOMAIN s |-> LowerAtom(s[i])]

\* str.upper() on one character of a UUID string.
UpperAtom(a) ==
    CASE a = "a" -> "A"
      [] a = "b" -> "B"
      [] a = "c" -> "C"
      [] a = "d" -> "D"
      [] a = "e" -> "E"
      [] a = "f" -> "F"
      [] OTHER -> a

Upper(s) == [i \in DOMAIN s |-> UpperAtom(s[i])]

RECURSIVE LStrip(_)
LStrip(s) ==
    IF s # <<>> /\ Head(s) \in Whitespace THEN LStrip(Tail(s)) ELSE s

RECURSIVE RStrip(_)
RStrip(s) ==
    IF s # <<>> /\ s[Len(s)] \in Whitespace
    THEN RStrip(SubSeq(s, 1, Len(s) - 1))
    ELSE s

\* str.strip()
Strip(s) == RStrip(LStrip(s))

RECURSIVE SplitAcc(_, _, _)
SplitAcc(s, cur, acc) ==
    IF s = <<>> THEN Append(acc, cur)
    ELSE IF Head(s) = ","
         THEN SplitAcc(Tail(s), <<>>, Append(acc, cur))
         ELSE SplitAcc(Tail(s), Append(cur, Head(s)), acc)

\* str.split(","): always at least one piece, empty pieces kept.
Split(s) == SplitAcc(s, <<>>, <<>>)

RECURSIVE Join(_, _)
\* sep.join(parts)
Join(sep, parts) ==
    IF parts = <<>> THEN <<>>
    ELSE IF Len(parts) = 1 THEN parts[1]
    ELSE parts[1] \o <<sep>> \o Join(sep, Tail(parts))

\* x in list
In(x, list) == \E i \in DOMAIN list : list[i] = x

\* sub in s, for strings
Contains(s, sub) ==
    \E i \in 0..(Len(s) - Len(sub)) : SubSeq(s, i + 1, i + Len(sub)) = sub

IsPrefix(s, t) == Len(s) =< Len(t) /\ SubSeq(t, 1, Len(s)) = s

(***************************************************************************)
(* The language-model gateway.  The provider's answer is an input: either  *)
(* the call raises, or it returns a content string.                        *)
(***************************************************************************)
Raises == [ok |-> FALSE, content |-> <<>>]
Returns(c) == [ok |-> TRUE, content |-> c]

system_prompt == <<"You are Sierra, an adventurous and cheerful outdoor gear expert. ...">>

GPT_ERROR_REPLY ==
    <<"Oops! Looks like I'm having trouble reaching the trailhead. Try again in a moment?">>

CHAT_ERROR_REPLY == <<"Something went off trail - please try again shortly!">>

\* A call_gpt whose error text is itself an intent label.
CallGptLabelFallback(outcome) ==
    IF outcome.ok THEN Strip(outcome.content) ELSE <<"order">>

\* call_gpt: the stripped content, or the fixed text when the call raises.
CallGpt(outcome) ==
    IF outcome.ok THEN Strip(outcome.content) ELSE GPT_ERROR_REPLY

\* print(f"[GPT error] {e}") of both gateway wrappers: what a call writes.
GptErrorLog(outcome) == IF outcome.ok THEN <<>> ELSE << <<"[GPT error] ">> >>

Turn(role, content) == [role |-> role, content |-> content]

\* A call_gpt_and_update_history that saves the user turn before the call.
CallGptAndUpdateHistoryEagerAppend(hist, new_user_message, outcome) ==
    LET messages == <<Turn("system", system_prompt)>> \o hist
                      \o <<Turn("user", new_user_message)>>
        saved == Append(hist, Turn("user", new_user_message))
    IN  IF outcome.ok
        THEN [history |-> Append(saved, Turn("assistant", Strip(outcome.content))),
              reply |-> Strip(outcome.content), messages |-> messages, ok |-> TRUE]
        ELSE [history |-> saved, reply |-> CHAT_ERROR_REPLY,
              messages |-> messages, ok |-> FALSE]

\* A call_gpt_and_update_history that sends only the new message.
CallGptAndUpdateHistoryNoReplay(hist, new_user_message, outcome) ==
    LET messages == <<Turn("system", system_prompt), Turn("user", new_user_message)>>
    IN  IF outcome.ok
        THEN [history |-> hist \o <<Turn("user", new_user_message),
                                    Turn("assistant", Strip(outcome.content))>>,
              reply |-> Strip(outcome.content), messages |-> messages, ok |-> TRUE]
        ELSE [history |-> hist, reply |-> CHAT_ERROR_REPLY,
              messages |-> messages, ok |-> FALSE]

\* call_gpt_and_update_history: the new history, the reply, the messages sent.
CallGptAndUpdateHistory(hist, new_user_message, outcome) ==
    LET messages == <<Turn("system", system_prompt)>> \o hist
                      \o <<Turn("user", new_user_message)>>
    IN  IF outcome.ok
        THEN [history |-> hist \o <<Turn("user", new_user_message),
                                    Turn("assistant", Strip(outcome.content))>>,
              reply |-> Strip(outcome.content), messages |-> messages, ok |-> TRUE]
        ELSE [history |-> hist, reply |-> CHAT_ERROR_REPLY,
              messages |-> messages, ok |-> FALSE]

(***************************************************************************)
(* __init__: the tag index                                                 *)
(***************************************************************************)
\* defaultdict(list): index[key].append(product)
IndexAppend(index, key, product) ==
    IF key \in DOMAIN index
    THEN [index EXCEPT ![key] = Append(@, product)]
    ELSE index @@ (key :> <<product>>)

RECURSIVE IndexTags(_, _, _)
\* the inner loop: for tag in product["Tags"]
IndexTags(index, product, tags) ==
    IF tags = <<>> THEN index
    ELSE IndexTags(IndexAppend(index, Lower(Head(tags)), product), product, Tail(tags))

RECURSIVE IndexProducts(_, _)
\* the outer loop: for product in self.products
IndexProducts(index, prods) ==
    IF prods = <<>> THEN index
    ELSE IndexProducts(IndexTags(index, Head(prods), Head(prods).Tags), Tail(prods))

EmptyIndex == [k \in {} |-> <<>>]

BuildTagIndex(prods) == IndexProducts(EmptyIndex, prods)

(***************************************************************************)
(* handle_order_info                                                       *)
(***************************************************************************)
ORDER_NOT_FOUND == <<"Couldn't find an order with that email and order number.">>

TRACKING_URL == "Tracking link: https://tools.usps.com/go/TrackConfirmAction?tLabels="

OrderFound(order_number, match) ==
    <<"Order ">> \o order_number \o <<" is ">> \o match.Status \o <<". ">>
      \o <<TRACKING_URL>> \o match.TrackingNumber

\* A handle_order_info that compares the email without regard to case.
HandleOrderInfoAnyCase(ords, email, order_number) ==
    LET hits == SelectSeq(ords, LAMBDA o : Lower(o.Email) = Lower(email)
                                           /\ o.OrderNumber = order_number)
    IN  IF hits # <<>> THEN OrderFound(order_number, hits[1]) ELSE ORDER_NOT_FOUND

EMAIL_PROMPT == <<"Please provide your email: ">>

ORDER_NUMBER_PROMPT == <<"Please provide your order number: ">>

\* handle_order_info: email and order_number are the two lines read from the
\* console; the first stored order equal on both fields is the match.
HandleOrderInfo(ords, email, order_number) ==
    LET hits == SelectSeq(ords, LAMBDA o : o.Email = email
                                           /\ o.OrderNumber = order_number)
    IN  IF hits # <<>> THEN OrderFound(order_number, hits[1]) ELSE ORDER_NOT_FOUND

(***************************************************************************)
(* handle_product_recommendation                                           *)
(* The text of the single-turn prompts is not part of the state: the       *)
(* provider's answer is an unconstrained input whatever the prompt says.   *)
(***************************************************************************)
RECOMMENDATION_FALLBACK ==
    <<"Product Status: Couldn't find anything that matches. Ask the user to describe what they're looking for in a bit more detail.">>

\* tag_response.split(",") with every piece stripped; empty pieces are kept.
ExtractTags(tag_response) ==
    LET pieces == Split(tag_response)
    IN  [i \in DOMAIN pieces |-> Strip(pieces[i])]

RECURSIVE TouchKeys(_, _)
TouchKeys(index, tags) ==
    IF tags = <<>> THEN index
    ELSE TouchKeys(IF Head(tags) \in DOMAIN index THEN index
                   ELSE index @@ (Head(tags) :> <<>>), Tail(tags))

\* A filter that reads self.tag_index[tag]: the defaultdict then stores an
\* empty list under every tag the model made up.
ValidTagsBySubscript(index, extracted_tags) ==
    [tags |-> SelectSeq(extracted_tags, LAMBDA t : t \in DOMAIN index),
     index |-> TouchKeys(index, extracted_tags)]

\* valid_tags = [tag for tag in extracted_tags if tag in self.tag_index];
\* the membership test leaves the defaultdict as it is.
ValidTags(index, extracted_tags) ==
    [tags |-> SelectSeq(extracted_tags, LAMBDA t : t \in DOMAIN index),
     index |-> index]

RECURSIVE MatchedProducts(_, _)
\* matched_products.extend(self.tag_index[tag]) for each valid tag
MatchedProducts(index, valid_tags) ==
    IF valid_tags = <<>> THEN <<>>
    ELSE index[Head(valid_tags)] \o MatchedProducts(index, Tail(valid_tags))

\* A handle_product_recommendation without the early return.
HandleProductRecommendationNoEarlyReturn(index, query, tag_outcome, select_outcome) ==
    LET valid == ValidTags(index, ExtractTags(CallGpt(tag_outcome)))
    IN  [out |-> CallGpt(select_outcome),
         calls |-> <<"tag_selection", "product_selection">>,
         printed |-> GptErrorLog(tag_outcome) \o GptErrorLog(select_outcome),
         valid_tags |-> valid.tags,
         tag_index |-> valid.index]

\* handle_product_recommendation: the returned text, the gateway calls made,
\* in order, and the tag index as the call leaves it.
HandleProductRecommendation(index, query, tag_outcome, select_outcome) ==
    LET tag_response == CallGpt(tag_outcome)
        valid == ValidTags(index, ExtractTags(tag_response))
        matched_products == MatchedProducts(valid.index, valid.tags)
    IN  IF matched_products = <<>>
        THEN [out |-> RECOMMENDATION_FALLBACK,
              calls |-> <<"tag_selection">>,
              printed |-> GptErrorLog(tag_outcome),
              valid_tags |-> valid.tags,
              tag_index |-> valid.index]
        ELSE [out |-> CallGpt(select_outcome),
              calls |-> <<"tag_selection", "product_selection">>,
              printed |-> GptErrorLog(tag_outcome) \o GptErrorLog(select_outcome),
              valid_tags |-> valid.tags,
              tag_index |-> valid.index]

(***************************************************************************)
(* handle_early_riser_promo                                                *)
(***************************************************************************)
PROMO_QUALIFIES == "This user qualifies for the Early Riser promotion! They may use discount code "

PROMO_SUFFIX == " for 10% off."

PROMO_CLOSED ==
    <<"The Early Riser promotion only runs from 8-10 AM Pacific Time. This user does not currently qualify.">>

\* datetime.now(pytz.timezone("US/Pacific")).hour: the instant is its UTC hour
\* and whether daylight saving time is in force (UTC-7) or not (UTC-8).
PacificHour(now) == (now.utc_hour + 24 - 8 + (IF now.dst THEN 1 ELSE 0)) % 24

\* A handle_early_riser_promo whose window includes 10 o'clock.
HandleEarlyRiserPromoThroughTen(now, uuid) ==
    IF 8 =< PacificHour(now) /\ PacificHour(now) =< 10
    THEN <<PROMO_QUALIFIES, "SIERRA-">> \o Upper(SubSeq(uuid, 1, 4)) \o <<PROMO_SUFFIX>>
    ELSE PROMO_CLOSED

\* handle_early_riser_promo: uuid is str(uuid.uuid4()), one atom per character.
HandleEarlyRiserPromo(now, uuid) ==
    IF 8 =< PacificHour(now) /\ PacificHour(now) < 10
    THEN <<PROMO_QUALIFIES, "SIERRA-">> \o Upper(SubSeq(uuid, 1, 4)) \o <<PROMO_SUFFIX>>
    ELSE PROMO_CLOSED

(***************************************************************************)
(* handle                                                                  *)
(***************************************************************************)
\* intents = [intent.strip() for intent in intent_response.split(",") if intent.strip()]
ParseIntents(intent_response) ==
    LET pieces == Split(intent_response)
    IN  SelectSeq([i \in DOMAIN pieces |-> Strip(pieces[i])], LAMBDA t : t # <<>>)

RECURSIVE ResponsesInIntentOrder(_, _, _, _)
\* A dispatch that walks the intent list and runs a handler per label met.
ResponsesInIntentOrder(intents, order_out, rec_out, promo_out) ==
    IF intents = <<>> THEN <<>>
    ELSE (CASE Head(intents) = <<"order">> -> <<order_out>>
            [] Head(intents) = <<"recommendation">> -> <<rec_out>>
            [] Head(intents) = <<"early_riser">> -> <<promo_out>>
            [] OTHER -> <<>>)
         \o ResponsesInIntentOrder(Tail(intents), order_out, rec_out, promo_out)

\* The three "if ... in intents: responses.append(...)" statements.
Responses(intents, order_out, rec_out, promo_out) ==
    (IF In(<<"order">>, intents) THEN <<order_out>> ELSE <<>>)
      \o (IF In(<<"recommendation">>, intents) THEN <<rec_out>> ELSE <<>>)
      \o (IF In(<<"early_riser">>, intents) THEN <<promo_out>> ELSE <<>>)

\* A test that lets handler output through when "general" is also present.
UseRawInputOnlyWhenEmpty(responses, intents) == responses = <<>>

\* if not responses or "general" in intents
UseRawInput(responses, intents) == responses = <<>> \/ In(<<"general">>, intents)

\* compiled_prompt
CompilePrompt(input, responses) ==
    <<"User question: ">> \o input
      \o <<". ", "Use the following information to best answer the user's question: ">>
      \o Join("\n", responses)

\* handle(user_input) on the agent ag = [orders, tag_index, history], with the
\* inputs the call reads from outside: the provider's answers, the two console
\* lines of the order handler, the clock and the UUID.
Handle(ag, input, env) ==
    LET intent_response == CallGpt(env.intent)
        intents == ParseIntents(intent_response)
        run_order == In(<<"order">>, intents)
        run_rec == In(<<"recommendation">>, intents)
        run_promo == In(<<"early_riser">>, intents)
        rec == IF run_rec
               THEN HandleProductRecommendation(ag.tag_index, input, env.tags, env.select)
               ELSE [out |-> <<>>, calls |-> <<>>, printed |-> <<>>,
                     valid_tags |-> <<>>, tag_index |-> ag.tag_index]
        responses == Responses(intents,
                               HandleOrderInfo(ag.orders, env.email, env.order_number),
                               rec.out,
                               HandleEarlyRiserPromo(env.now, env.uuid))
        new_user_message == IF UseRawInput(responses, intents) THEN input
                            ELSE CompilePrompt(input, responses)
        chat == CallGptAndUpdateHistory(ag.history, new_user_message, env.chat)
    IN  [history |-> chat.history,
         tag_index |-> rec.tag_index,
         reply |-> chat.reply,
         intent_response |-> intent_response,
         intents |-> intents,
         ran |-> (IF run_order THEN <<"order">> ELSE <<>>)
                   \o (IF run_rec THEN <<"recommendation">> ELSE <<>>)
                   \o (IF run_promo THEN <<"early_riser">> ELSE <<>>),
         responses |-> responses,
         valid_tags |-> rec.valid_tags,
         sent |-> new_user_message,
         messages |-> chat.messages,
         chat_ok |-> chat.ok,
         calls |-> <<"intent">> \o rec.calls \o <<"chat">>,
         printed |-> GptErrorLog(env.intent)
                       \o (IF run_order THEN <<EMAIL_PROMPT, ORDER_NUMBER_PROMPT>> ELSE <<>>)
                       \o rec.printed
                       \o GptErrorLog(env.chat)]

(***************************************************************************)
(* Data the program loads and inputs it reads                              *)
(***************************************************************************)
\* All strings of at most n atoms over the alphabet.
StringsUpTo(alphabet, n) == UNION {[1..k -> alphabet] : k \in 0..n}

TrailTent == [ProductName |-> <<"Trail Tent">>, Description |-> <<"Two-person tent">>,
              Tags |-> << <<"Tent">>, <<"Hike">> >>]

Boots == [ProductName |-> <<"Summit Boots">>, Description |-> <<"Waterproof boots">>,
          Tags |-> << <<"hike">>, <<"HIKE">> >>]

Bell == [ProductName |-> <<"Bear Bell">>, Description |-> <<"A loud bell">>,
         Tags |-> << GPT_ERROR_REPLY, <<>> >>]

\* ProductCatalog.json as loaded: any list of products.
Catalogs == StringsUpTo({TrailTent, Boots, Bell}, MaxProducts)

OrderA1 == [Email |-> <<"a@x.com">>, OrderNumber |-> <<"#W001">>,
            Status |-> <<"delivered">>, TrackingNumber |-> <<"TRK1">>]

OrderA2 == [Email |-> <<"a@x.com">>, OrderNumber |-> <<"#W002">>,
            Status |-> <<"in-transit">>, TrackingNumber |-> <<"TRK2">>]

OrderB1 == [Email |-> <<"b@y.org">>, OrderNumber |-> <<"#W001">>,
            Status |-> <<"fulfilled">>, TrackingNumber |-> <<"TRK3">>]

\* A second record under the identity of OrderA1.
OrderA1Again == [Email |-> <<"a@x.com">>, OrderNumber |-> <<"#W001">>,
                 Status |-> <<"error">>, TrackingNumber |-> <<"TRK4">>]

\* CustomerOrders.json as loaded: any list of orders.
Stores == StringsUpTo({OrderA1, OrderA2, OrderB1, OrderA1Again}, MaxOrders)

\* Lines typed at the two prompts of the order handler.
EmailLines == {<<"a@x.com">>, <<"A@X.COM">>, <<"a@x.com", " ">>, <<"b@y.org">>}

OrderNumberLines == {<<"#W001">>, <<"#W002">>, <<" ", "#W001">>}

\* str(uuid.uuid4()): 8-4-4-4-12 hexadecimal digits; the first four vary here.
UuidStrings ==
    {<<a, b, c, d>> \o <<"0", "0", "0", "0", "-", "0", "0", "0", "0", "-",
                        "4", "0", "0", "0", "-", "8", "0", "0", "0", "-",
                        "0", "0", "0", "0", "0", "0", "0", "0", "0", "0", "0", "0">>
       : a \in {"3", "a", "f"}, b \in {"3", "a", "f"},
         c \in {"3", "a", "f"}, d \in {"3", "a", "f"}}

Instants == [utc_hour : 0..23, dst : BOOLEAN]

(***************************************************************************)
(* main.py: the console loop over one agent                                *)
(***************************************************************************)
WELCOME == <<"Welcome to the Sierra Assistant! Ask me anything. (Type 'exit' to quit)", "\n">>

FAREWELL == <<"Sierra Agent: Until next time - stay wild out there!">>

REPLY_PREFIX == <<"Sierra Agent:", " ">>

\* Lines typed at the "You: " prompt.
Lines == {<<"exit">>, <<"Exit">>, <<"QUIT">>, <<" ", "exit", " ">>, <<"\t", "quit">>,
          <<"hi">>, <<"exit", " ", "now">>}

LoopCatalogs == {<<>>, <<TrailTent, Boots>>, <<Boots, Bell, TrailTent>>}

LoopStores == {<<OrderA1, OrderB1>>}

\* What one handle call of the loop may read from outside.
LoopEnvs ==
    [intent : {Raises, Returns(<<"general">>), Returns(<<"order", ",", " ", "general">>),
               Returns(<<"recommendation">>), Returns(<<"early_riser", ",", "order">>)},
     email : {<<"a@x.com">>, <<"A@X.COM">>},
     order_number : {<<"#W001">>},
     tags : {Returns(<<"hike", ",", " ", "glamping">>), Returns(<<"glamping">>)},
     select : {Returns(<<"Recommended Purchase for Customer: Summit Boots - Waterproof boots">>)},
     now : {[utc_hour |-> 16, dst |-> FALSE], [utc_hour |-> 18, dst |-> FALSE]},
     uuid : {<<"3", "a", "f", "3">> \o <<"0", "0", "0", "0", "-", "0", "0", "0", "0", "-",
                        "4", "0", "0", "0", "-", "8", "0", "0", "0", "-",
                        "0", "0", "0", "0", "0", "0", "0", "0", "0", "0", "0", "0">>},
     chat : {Raises, Returns(<<"Happy trails!", " ">>)}]

\* A test that strips the line without lowering it.
IsExitCommandNoLower(line) == Strip(line) \in {<<"exit">>, <<"quit">>}

\* user_input.strip().lower() in {"exit", "quit"}
IsExitCommand(line) == Lower(Strip(line)) \in {<<"exit">>, <<"quit">>}

NoCall == [op |-> "none"]

\* agent = SierraAgent(), then the welcome line.
Init ==
    /\ orders \in LoopStores
    /\ products \in LoopCatalogs
    /\ tag_index = BuildTagIndex(products)
    /\ history = <<>>
    /\ pc = "read"
    /\ user_input = <<>>
    /\ console = WELCOME
    /\ turns = 0
    /\ handle_calls = 0
    /\ gateway_calls = 0
    /\ last = NoCall

\* user_input = input("You: ")
ReadLine ==
    /\ pc = "read"
    /\ turns < MaxTurns
    /\ \E line \in Lines : user_input' = line
    /\ turns' = turns + 1
    /\ pc' = "test"
    /\ UNCHANGED <<orders, products, tag_index, history, console,
                   handle_calls, gateway_calls, last>>

\* the exit branch: print the farewell and break
Farewell ==
    /\ pc = "test"
    /\ IsExitCommand(user_input)
    /\ console' = FAREWELL
    /\ pc' = "done"
    /\ UNCHANGED <<orders, products, tag_index, history, user_input, turns,
                   handle_calls, gateway_calls, last>>

\* agent.handle(user_input), evaluated as the argument of the final print
Dispatch ==
    /\ pc = "test"
    /\ ~IsExitCommand(user_input)
    /\ \E env \in LoopEnvs :
         LET r == Handle([orders |-> orders, tag_index |-> tag_index,
                          history |-> history], user_input, env)
         IN  /\ history' = r.history
             /\ tag_index' = r.tag_index
             /\ console' = IF r.printed = <<>> THEN console
                           ELSE r.printed[Len(r.printed)]
             /\ gateway_calls' = gateway_calls + Len(r.calls)
             /\ last' = [op |-> "handle", input |-> user_input, before |-> history,
                         intent |-> env.intent, chat |-> env.chat, result |-> r]
    /\ handle_calls' = handle_calls + 1
    /\ pc' = "print"
    /\ UNCHANGED <<orders, products, user_input, turns>>

\* print("Sierra Agent:", reply), then back to the top of the loop
ShowReply ==
    /\ pc = "print"
    /\ console' = REPLY_PREFIX \o last.result.reply
    /\ pc' = "read"
    /\ UNCHANGED <<orders, products, tag_index, history, user_input, turns,
                   handle_calls, gateway_calls, last>>

Next == ReadLine \/ Farewell \/ Dispatch \/ ShowReply

Spec == Init /\ [][Next]_vars

(***************************************************************************)
(* The handlers and handle called once on a freshly constructed agent,     *)
(* over wider inputs than the loop above reads.                            *)
(***************************************************************************)
Constructed(stores, catalogs) ==
    /\ orders \in stores
    /\ products \in catalogs
    /\ tag_index = BuildTagIndex(products)
    /\ history = <<>>
    /\ pc = "call"
    /\ user_input = <<>>
    /\ console = WELCOME
    /\ turns = 0
    /\ handle_calls = 0
    /\ gateway_calls = 0
    /\ last = NoCall

\* ---- handle_order_info ----
InitOrder == Constructed(Stores, {<<>>})

OrderInfo ==
    /\ pc = "call"
    /\ \E email \in EmailLines, order_number \in OrderNumberLines :
         last' = [op |-> "order_info", email |-> email, order_number |-> order_number,
                  out |-> HandleOrderInfo(orders, email, order_number)]
    /\ console' = ORDER_NUMBER_PROMPT
    /\ pc' = "returned"
    /\ UNCHANGED <<orders, products, tag_index, history, user_input, turns,
                   handle_calls, gateway_calls>>

NextOrder == OrderInfo

SpecOrder == InitOrder /\ [][NextOrder]_vars

\* ---- handle_product_recommendation ----
TagAtoms == {",", " ", "hike", "Hike", "glamping"}

TagAnswers == {Raises} \cup {Returns(c) : c \in StringsUpTo(TagAtoms, MaxTagRespLen)}

SelectAnswers ==
    {Raises, Returns(<<"Recommended Purchase for Customer: Summit Boots - Waterproof boots">>)}

InitRecommendation == Constructed({<<>>}, Catalogs)

ProductRecommendation ==
    /\ pc = "call"
    /\ \E tag_outcome \in TagAnswers, select_outcome \in SelectAnswers :
         LET r == HandleProductRecommendation(tag_index, <<"boots?">>,
                                              tag_outcome, select_outcome)
         IN  /\ tag_index' = r.tag_index
             /\ gateway_calls' = gateway_calls + Len(r.calls)
             /\ console' = IF r.printed = <<>> THEN console
                           ELSE r.printed[Len(r.printed)]
             /\ last' = [op |-> "recommendation", tag_outcome |-> tag_outcome,
                         select_outcome |-> select_outcome, before |-> tag_index,
                         result |-> r]
    /\ pc' = "returned"
    /\ UNCHANGED <<orders, products, history, user_input, turns, handle_calls>>

NextRecommendation == ProductRecommendation

SpecRecommendation == InitRecommendation /\ [][NextRecommendation]_vars

\* ---- handle_early_riser_promo ----
InitPromo == Constructed({<<>>}, {<<>>})

EarlyRiserPromo ==
    /\ pc = "call"
    /\ \E now \in Instants, uuid \in UuidStrings :
         last' = [op |-> "early_riser", now |-> now, uuid |-> uuid,
                  out |-> HandleEarlyRiserPromo(now, uuid)]
    /\ pc' = "returned"
    /\ UNCHANGED <<orders, products, tag_index, history, user_input, console, turns,
                   handle_calls, gateway_calls>>

NextPromo == EarlyRiserPromo

SpecPromo == InitPromo /\ [][NextPromo]_vars

\* ---- handle ----
IntentAtoms == {",", " ", "order", "recommendation", "early_riser", "general", "Order"}

Commas(a, b, c) == <<a, ",", " ", b, ",", c>>

IntentAnswers ==
    {Raises}
      \cup {Returns(c) : c \in StringsUpTo(IntentAtoms, MaxRespLen)}
      \cup {Returns(Commas(a, b, c)) :
              a \in {"order", "recommendation", "early_riser", "general"},
              b \in {"order", "recommendation", "early_riser"},
              c \in {"order", "recommendation", "early_riser"}}

DispatchEnvs ==
    [intent : IntentAnswers,
     email : {<<"a@x.com">>, <<"A@X.COM">>},
     order_number : {<<"#W001">>},
     tags : {Returns(<<"hike", ",", " ", "glamping">>), Returns(<<"glamping">>)},
     select : {Returns(<<"Recommended Purchase for Customer: Summit Boots - Waterproof boots">>),
               Returns(<<" ">>)},
     now : {[utc_hour |-> 16, dst |-> FALSE], [utc_hour |-> 18, dst |-> FALSE]},
     uuid : {<<"3", "a", "f", "3">> \o <<"0", "0", "0", "0", "-", "0", "0", "0", "0", "-",
                        "4", "0", "0", "0", "-", "8", "0", "0", "0", "-",
                        "0", "0", "0", "0", "0", "0", "0", "0", "0", "0", "0", "0">>},
     chat : {Raises, Returns(<<"Happy trails!", " ">>)}]

InitHandle == Constructed({<<OrderA1, OrderB1>>}, {<<TrailTent, Boots>>})

HandleOnce ==
    /\ pc = "call"
    /\ \E line \in {<<"hi">>, <<"where", " ", "is", " ", "it?">>}, env \in DispatchEnvs :
         LET r == Handle([orders |-> orders, tag_index |-> tag_index,
                          history |-> history], line, env)
         IN  /\ user_input' = line
             /\ history' = r.history
             /\ tag_index' = r.tag_index
             /\ console' = IF r.printed = <<>> THEN console
                           ELSE r.printed[Len(r.printed)]
             /\ gateway_calls' = gateway_calls + Len(r.calls)
             /\ last' = [op |-> "handle", input |-> line, before |-> history,
                         before_index |-> tag_index,
                         intent |-> env.intent, chat |-> env.chat, env |-> env,
                         result |-> r]
    /\ handle_calls' = handle_calls + 1
    /\ pc' = "returned"
    /\ UNCHANGED <<orders, products, turns>>

NextHandle == HandleOnce

SpecHandle == InitHandle /\ [][NextHandle]_vars

(***************************************************************************)
(* Properties                                                              *)
(***************************************************************************)
Handled == last.op = "handle"

Labelled(label) == In(<<label>>, last.result.intents)

\* C1: when the persona chat call of a handle call raises, the history after
\* the call equals the history before it, and the fixed apology is returned,
\* whatever intents were classified and whatever handlers ran.
C1_FailedChatLeavesHistoryUntouched ==
    (Handled /\ ~last.chat.ok) =>
        /\ history = last.before
        /\ last.result.reply = <<"Something went off trail - please try again shortly!">>

C1_Witness ==
    /\ Handled
    /\ ~last.chat.ok
    /\ last.before # <<>>
    /\ last.result.ran = <<"order", "early_riser">>

\* C2: when no fragment was produced or "general" is among the parsed intents,
\* the message sent to the persona chat is the raw user input, also when
\* handlers ran for other labels of the same answer.
C2_GeneralOrNoFragmentSendsRawInput ==
    (Handled /\ (last.result.responses = <<>> \/ Labelled("general"))) =>
        /\ last.result.sent = last.input
        /\ last.result.messages[Len(last.result.messages)] = Turn("user", last.input)

C2_Witness ==
    /\ Handled
    /\ Labelled("general")
    /\ last.result.ran = <<"order", "early_riser">>
    /\ Len(last.result.responses) = 2
    /\ last.result.sent = last.input

\* The fragments the claim C3 describes: one per handler whose label is among
\* the parsed intents, in the order order, recommendation, early_riser.
ExpectedFragments ==
    (IF Labelled("order")
     THEN <<HandleOrderInfo(orders, last.env.email, last.env.order_number)>> ELSE <<>>)
      \o (IF Labelled("recommendation")
          THEN <<HandleProductRecommendation(last.before_index, last.input, last.env.tags,
                                             last.env.select).out>>
          ELSE <<>>)
      \o (IF Labelled("early_riser")
          THEN <<HandleEarlyRiserPromo(last.env.now, last.env.uuid)>> ELSE <<>>)

ExpectedRan ==
    SelectSeq(<<"order", "recommendation", "early_riser">>, LAMBDA h : Labelled(h))

\* C3: without "general" and with at least one handler label among the parsed
\* intents, the message sent is "User question: {input}. Use the following
\* information to best answer the user's question: {fragments}", the fragments
\* being the outputs of exactly the labelled handlers, each once, joined by
\* newlines in the order order, recommendation, early_riser.
C3_CompiledPromptInFixedOrder ==
    (Handled /\ ~Labelled("general")
       /\ (Labelled("order") \/ Labelled("recommendation") \/ Labelled("early_riser"))) =>
        /\ last.result.ran = ExpectedRan
        /\ last.result.responses = ExpectedFragments
        /\ last.result.sent =
             <<"User question: ">> \o last.input
               \o <<". ", "Use the following information to best answer the user's question: ">>
               \o Join("\n", ExpectedFragments)

C3_Witness ==
    /\ Handled
    /\ last.result.intents = << <<"early_riser">>, <<"order">>, <<"order">> >>
    /\ last.result.ran = <<"order", "early_riser">>
    /\ Len(last.result.responses) = 2
    /\ last.result.sent # last.input

\* After a successful persona chat call: the history is the previous one
\* followed by the user turn of the message sent and the assistant turn of the
\* reply, and the request was system prompt, previous history, new message.
SuccessfulChatAppendsTwoTurns ==
    (Handled /\ last.chat.ok) =>
        /\ history = last.before
                       \o <<[role |-> "user", content |-> last.result.sent],
                            [role |-> "assistant", content |-> last.result.reply]>>
        /\ last.result.reply = Strip(last.chat.content)
        /\ last.result.messages =
             <<[role |-> "system", content |-> system_prompt]>>
               \o last.before
               \o <<[role |-> "user", content |-> last.result.sent]>>

\* C4: a successful handle call appends exactly the user turn (the message
\* sent) and the assistant turn (the reply) to the unchanged previous history,
\* having sent system prompt, previous history and new message; so over any
\* run the history only grows and earlier turns stay as they are.
C4_HistoryAppendOnly ==
    /\ []SuccessfulChatAppendsTwoTurns
    /\ [][IsPrefix(history, history')]_vars

C4_Witness ==
    /\ Handled
    /\ last.chat.ok
    /\ Len(last.before) = 2
    /\ Len(history) = 4
    /\ last.result.sent # last.input

RecommendationCalled == last.op = "recommendation"

\* The tokens of the tag-selection answer: the text call_gpt hands back (the
\* apology when the call raised), split on commas, each piece stripped.
ReturnedTagTokens ==
    ExtractTags(IF last.tag_outcome.ok THEN Strip(last.tag_outcome.content)
                ELSE GPT_ERROR_REPLY)

SomeTokenIsKey == \E i \in DOMAIN ReturnedTagTokens : ReturnedTagTokens[i] \in DOMAIN last.before

\* C5: when no token of the tag-selection answer is a key of the tag index,
\* which includes the answer of a failed call, the handler returns the fallback
\* text and makes no second gateway call; the product-selection call is made
\* only when some token is a key.
C5_FallbackWithoutSecondCall ==
    RecommendationCalled =>
        /\ ~last.tag_outcome.ok => ~SomeTokenIsKey
        /\ ~SomeTokenIsKey =>
             /\ last.result.out = RECOMMENDATION_FALLBACK
             /\ last.result.calls = <<"tag_selection">>
        /\ In("product_selection", last.result.calls) => SomeTokenIsKey

C5_Witness ==
    /\ RecommendationCalled
    /\ ~last.tag_outcome.ok
    /\ In(Bell, products)
    /\ last.result.out = RECOMMENDATION_FALLBACK
    /\ last.result.calls = <<"tag_selection">>

OrderInfoCalled == last.op = "order_info"

StoredUnder(email, order_number) ==
    {i \in DOMAIN orders : orders[i].Email = email /\ orders[i].OrderNumber = order_number}

\* C6: a pair of entered lines that equals no stored (Email, OrderNumber)
\* verbatim gets the not-found text; a pair that equals one gets a text with
\* the stored status and a tracking URL with the stored tracking number of
\* the order it matches (the first one in the store under that pair).
C6_OrderLookupExactMatch ==
    OrderInfoCalled =>
        LET hits == StoredUnder(last.email, last.order_number)
        IN  IF hits = {}
            THEN last.out = ORDER_NOT_FOUND
            ELSE LET first == orders[CHOOSE i \in hits : \A j \in hits : i =< j]
                 IN  /\ Contains(last.out, first.Status)
                     /\ Contains(last.out, <<TRACKING_URL>> \o first.TrackingNumber)
                     /\ last.out # ORDER_NOT_FOUND

C6_Witness ==
    /\ OrderInfoCalled
    /\ In(OrderA1, orders)
    /\ last.email = <<"A@X.COM">>
    /\ last.order_number = <<"#W001">>
    /\ last.out = ORDER_NOT_FOUND

PromoCalled == last.op = "early_riser"

UppercaseAlphanumeric ==
    {"0", "1", "2", "3", "4", "5", "6", "7", "8", "9",
     "A", "B", "C", "D", "E", "F", "G", "H", "I", "J", "K", "L", "M",
     "N", "O", "P", "Q", "R", "S", "T", "U", "V", "W", "X", "Y", "Z"}

\* C7: at Pacific hour 8 or 9 the output is the qualification message with a
\* code "SIERRA-" plus four uppercase alphanumeric characters; at any other
\* hour, 10 included, it is the fixed non-qualifying text, which holds no code.
C7_PromoWindow ==
    PromoCalled =>
        LET h == PacificHour(last.now)
        IN  IF h \in {8, 9}
            THEN /\ Len(last.out) = 7
                 /\ last.out[1] = PROMO_QUALIFIES
                 /\ last.out[2] = "SIERRA-"
                 /\ \A i \in 3..6 : last.out[i] \in UppercaseAlphanumeric
                 /\ last.out[7] = PROMO_SUFFIX
            ELSE /\ last.out = PROMO_CLOSED
                 /\ ~Contains(last.out, <<"SIERRA-">>)

C7_Witness ==
    /\ PromoCalled
    /\ last.now = [utc_hour |-> 16, dst |-> TRUE]
    /\ SubSeq(last.uuid, 1, 4) = <<"a", "3", "f", "a">>
    /\ SubSeq(last.out, 2, 6) = <<"SIERRA-", "A", "3", "F", "A">>

LoweredTags ==
    UNION {{Lower(products[i].Tags[j]) : j \in DOMAIN products[i].Tags} : i \in DOMAIN products}

TagIndexMatchesCatalog ==
    /\ DOMAIN tag_index = LoweredTags
    /\ \A i \in DOMAIN products : \A j \in DOMAIN products[i].Tags :
         In(products[i], tag_index[Lower(products[i].Tags[j])])
    /\ \A key \in DOMAIN tag_index : \A k \in DOMAIN tag_index[key] :
         /\ In(tag_index[key][k], products)
         /\ \E j \in DOMAIN tag_index[key][k].Tags : Lower(tag_index[key][k].Tags[j]) = key

\* C8: in every reachable state the keys of the tag index are exactly the
\* lowercased tags of the products, every product is listed under each of its
\* lowercased tags, every listed product carries the key as a tag up to case;
\* and no step adds a key or changes the products or the orders.
C8_TagIndexInvariant ==
    /\ []TagIndexMatchesCatalog
    /\ [][/\ DOMAIN tag_index' = DOMAIN tag_index
          /\ products' = products
          /\ orders' = orders]_vars

C8_Witness ==
    /\ Handled
    /\ last.result.ran = <<"recommendation">>
    /\ last.result.valid_tags = << <<"hike">> >>
    /\ products = <<Boots, Bell, TrailTent>>
    /\ Len(tag_index[<<"hike">>]) = 3

ExitWordAnyCase(line) == Lower(line) \in {<<"exit">>, <<"quit">>}

ExitWordStrippedAnyCase(line) == Lower(Strip(line)) \in {<<"exit">>, <<"quit">>}

EndsWithoutDispatch ==
    /\ pc' = "done"
    /\ console' = FAREWELL
    /\ UNCHANGED <<history, tag_index, handle_calls, gateway_calls, last>>

HandledOnce ==
    /\ pc' = "print"
    /\ handle_calls' = handle_calls + 1
    /\ last'.op = "handle"
    /\ last'.input = user_input

ReplyShownBeforeNextRead ==
    pc = "print" =>
        /\ pc' = "read"
        /\ console' = REPLY_PREFIX \o last.result.reply
        /\ handle_calls' = handle_calls

\* C9 as stated: a line that is "exit" or "quit" in any letter case ends the
\* loop with the farewell and without dispatch; every other line goes to
\* handle exactly once and its reply is printed before the next read.
C9_AsStated ==
    [][/\ (pc = "test" /\ ExitWordAnyCase(user_input)) => EndsWithoutDispatch
       /\ (pc = "test" /\ ~ExitWordAnyCase(user_input)) => HandledOnce
       /\ ReplyShownBeforeNextRead]_vars

\* C9 amended: a line that, with leading and trailing whitespace stripped, is
\* "exit" or "quit" in any letter case ends the loop with the farewell and
\* without dispatch; every other line goes to handle exactly once and its
\* reply is printed before the next read.
C9_ExitAfterStrip ==
    [][/\ (pc = "test" /\ ExitWordStrippedAnyCase(user_input)) => EndsWithoutDispatch
       /\ (pc = "test" /\ ~ExitWordStrippedAnyCase(user_input)) => HandledOnce
       /\ ReplyShownBeforeNextRead]_vars

C9_Witness ==
    /\ pc = "done"
    /\ user_input = <<" ", "exit", " ">>
    /\ console = FAREWELL
    /\ handle_calls = 1
    /\ turns = 2

\* C10: when the classifier's gateway call raises, the text it yields holds no
\* intent label, no handler runs, the raw input goes to the persona chat, and
\* handle returns the model's reply, or the chat apology if that call raises too.
C10_ClassifierFailureFallsBackToChat ==
    (Handled /\ ~last.intent.ok) =>
        /\ \A label \in {"order", "recommendation", "early_riser", "general"} :
             ~Labelled(label)
        /\ last.result.ran = <<>>
        /\ last.result.calls = <<"intent", "chat">>
        /\ last.result.sent = last.input
        /\ last.result.reply = IF last.chat.ok THEN Strip(last.chat.content)
                               ELSE CHAT_ERROR_REPLY

C10_Witness ==
    /\ Handled
    /\ ~last.intent.ok
    /\ ~last.chat.ok
    /\ last.result.ran = <<>>
    /\ last.result.reply = CHAT_ERROR_REPLY

====
